---- MODULE Spec2Model ----
(***************************************************************************)
(* State-machine model of run_criminal_dbms.py: the Flask request handlers *)
(* of the criminal records application, the per-client session, and the    *)
(* relational tables the handlers read and write.                          *)
(*                                                                         *)
(* One action per route handler.  A handler runs as one step: every        *)
(* handler issues at most one writing statement inside one transaction.    *)
(* Strings that are searched or formatted are sequences of one-character   *)
(* strings; messages and credentials are plain strings.  A Python dict     *)
(* (session, request.form) is a record with a "keys" field naming the keys *)
(* that are present.  The CreatedAt/UpdatedAt columns are left out.        *)
(***************************************************************************)
EXTENDS Integers, Sequences, FiniteSets, TLC

VARIABLES
    session,        \* client -> that client's Flask session
    Criminal,       \* table Criminal: CriminalID -> row
    CaseTable,      \* table CaseTable: CaseID -> row
    CriminalCase,   \* table CriminalCase: set of association rows
    Crime,          \* table Crime: CrimeID -> CrimeType
    CaseCrime,      \* table CaseCrime: set of association rows
    criminal_seq,   \* last value handed out by the CriminalID sequence
    case_seq,       \* last value handed out by the CaseID sequence
    clock,          \* seconds elapsed on the wall clock
    resp            \* what the last request did and answered

vars == <<session, Criminal, CaseTable, CriminalCase, Crime, CaseCrime, criminal_seq, case_seq, clock, resp>>
db == <<Criminal, CaseTable, CriminalCase, Crime, CaseCrime>>

----------------------------------------------------------------------------
(* Bounds of the model *)

MaxCriminalID == 2
MaxCaseID == 2
MaxClock == 1

Clients == {"c1"}

----------------------------------------------------------------------------
(* Text *)

UpperCase == <<"A","B","C","D","E","F","G","H","I","J","K","L","M",
               "N","O","P","Q","R","S","T","U","V","W","X","Y","Z">>
LowerCase == <<"a","b","c","d","e","f","g","h","i","j","k","l","m",
               "n","o","p","q","r","s","t","u","v","w","x","y","z">>

LowerChar(ch) ==
    IF \E i \in 1..Len(UpperCase) : UpperCase[i] = ch
    THEN LowerCase[CHOOSE i \in 1..Len(UpperCase) : UpperCase[i] = ch]
    ELSE ch

\* SQL LOWER()
LOWER(s) == [i \in 1..Len(s) |-> LowerChar(s[i])]

\* SQL LIKE: % matches any run of characters, _ any one character,
\* backslash takes the next character literally.
RECURSIVE LIKE(_, _)
LIKE(s, p) ==
    IF p = <<>> THEN s = <<>>
    ELSE IF Head(p) = "%"
         THEN LIKE(s, Tail(p)) \/ (s # <<>> /\ LIKE(Tail(s), p))
    ELSE IF Head(p) = "_"
         THEN s # <<>> /\ LIKE(Tail(s), Tail(p))
    ELSE IF Head(p) = "\\" /\ Len(p) >= 2
         THEN s # <<>> /\ Head(s) = p[2] /\ LIKE(Tail(s), Tail(Tail(p)))
    ELSE s # <<>> /\ Head(s) = Head(p) /\ LIKE(Tail(s), Tail(p))

Digits == <<"0","1","2","3","4","5","6","7","8","9">>

\* strftime's zero-padded decimal field of the given width
RECURSIVE ZeroPad(_, _)
ZeroPad(n, width) ==
    IF width = 0 THEN <<>>
    ELSE Append(ZeroPad(n \div 10, width - 1), Digits[(n % 10) + 1])

\* datetime.datetime.now(): the wall clock starts at 2025-03-09 21:59:59
now ==
    LET s == 59 + clock
        m == 59 + (s \div 60)
        h == 21 + (m \div 60)
    IN [year |-> 2025, month |-> 3, day |-> 9,
        hour |-> h, minute |-> m % 60, second |-> s % 60]

\* strftime('%Y%m%d%H%M%S')
strftime(t) ==
    ZeroPad(t.year, 4) \o ZeroPad(t.month, 2) \o ZeroPad(t.day, 2)
        \o ZeroPad(t.hour, 2) \o ZeroPad(t.minute, 2) \o ZeroPad(t.second, 2)

\* f"CASE-{...}"
case_number_of(t) == <<"C","A","S","E","-">> \o strftime(t)

----------------------------------------------------------------------------
(* Session and officers *)

\* table LawEnforcement; this application never writes it
LawEnforcement ==
    { [officerid |-> 1, username |-> "admin", passwordhash |-> "admin123",
       firstname |-> "Admin", lastname |-> "User"],
      [officerid |-> 2, username |-> "ravi", passwordhash |-> "Admin123",
       firstname |-> "Ravi", lastname |-> "Rao"] }

Usernames == {"admin", "ravi", "ghost"}
Passwords == {"admin123", "Admin123"}

SessionKeys == {"officer_id", "username", "officer_name"}
EmptySession == [keys |-> {}, officer_id |-> 0, username |-> "", officer_name |-> ""]

\* 'officer_id' in session
LoggedIn_Mut(s) == TRUE
LoggedIn(s) == "officer_id" \in s.keys

\* session.clear()
session_clear_Mut(s) == [s EXCEPT !.keys = s.keys \ {"username", "officer_name"}]
session_clear(s) == EmptySession

\* SELECT * FROM LawEnforcement WHERE Username = %s ; fetchone()
OfficerRows(username) == {u \in LawEnforcement : u.username = username}

\* user['passwordhash'] == password
PasswordMatches_Mut(user, password) == TRUE
PasswordMatches(user, password) == user.passwordhash = password

\* the three session assignments of a successful login
session_login(s, user) ==
    [keys |-> s.keys \cup SessionKeys,
     officer_id |-> user.officerid,
     username |-> user.username,
     officer_name |-> user.firstname \o " " \o user.lastname]

----------------------------------------------------------------------------
(* Responses *)

NoFlash == <<>>
NoError == <<>>
Flash(category, message) ==
    <<[category |-> category, message |-> message, err |-> NoError, count |-> 0]>>
FlashErr(message, e) ==
    <<[category |-> "error", message |-> message, err |-> e, count |-> 0]>>

\* a response record; unset fields keep these defaults
Response(client, route, method) ==
    [client |-> client, route |-> route, method |-> method,
     status |-> "render", target |-> "",
     flashes |-> NoFlash,
     opened |-> FALSE, closed |-> FALSE, executed |-> 0,
     committed |-> FALSE, rolledback |-> FALSE,
     id |-> 0, form |-> <<>>, search_type |-> "", query |-> <<>>, results |-> <<>>,
     dropped |-> {}]

\* return redirect(url_for('login')) of the session check
RedirectToLogin(client, route, method) ==
    [Response(client, route, method) EXCEPT !.status = "redirect", !.target = "login"]

\* a connection that was opened, used for n statements and closed
Served(r, n) == [r EXCEPT !.opened = TRUE, !.closed = TRUE, !.executed = n]

\* the handler going on with the None it got for a connection
ConnectionFailed_Mut(r, status, target, message) == [r EXCEPT !.status = "error500"]

\* get_db_connection() returned None
ConnectionFailed(r, status, target, message) ==
    [r EXCEPT !.status = status, !.target = target, !.flashes = Flash("error", message)]

\* errors raised while a handler runs, as the phrases of str(e)
ConnectionLost == <<"server closed the connection unexpectedly">>
BadDate == <<"invalid input syntax for type date">>
BadRequestKeyError == <<"400 Bad Request">>
ForeignKeyError == <<"update or delete on table", "violates foreign key constraint">>

\* where the database fails under a handler, if it does: get_db_connection()
\* returns None, a statement raises, or commit raises
Faults == {"none", "connect", "statement", "commit"}

\* phrase in str(e)
InMessage(phrase, e) == \E i \in 1..Len(e) : e[i] = phrase

----------------------------------------------------------------------------
(* Transactions *)

\* conn.rollback(): the statement's effect is dropped
rollback_Mut(before, working) == working
rollback(before, working) == before

\* conn.commit(): the statement's effect becomes the table
commit(before, working) == working

\* try: execute; commit  except: rollback.  stmtErr is the error the statement
\* raises by itself (NoError if none), working the table it would leave.
Transaction(before, stmtErr, working, fault) ==
    LET executeErr == IF fault = "statement" THEN ConnectionLost ELSE stmtErr
        err == IF executeErr # NoError THEN executeErr
               ELSE IF fault = "commit" THEN ConnectionLost ELSE NoError
        \* a statement that raises leaves nothing behind
        reached == IF executeErr # NoError THEN before ELSE working
    IN [ok |-> err = NoError, err |-> err, ran |-> executeErr = NoError,
        table |-> IF err = NoError THEN commit(before, reached) ELSE rollback(before, reached)]

\* the response fields a write handler sets around its transaction
Written(r, txn, target, flashes) ==
    [Served(r, 1) EXCEPT !.status = "redirect", !.target = target, !.flashes = flashes,
                         !.committed = txn.ok, !.rolledback = ~txn.ok]

----------------------------------------------------------------------------
(* Forms *)

\* request.form[...] finds every key the handler reads
FormComplete(form, keys) == keys \subseteq form.keys

\* the DATE columns take these values; anything else is rejected by the cast
ValidDates == {"1990-05-17", "2025-03-01"}
DateError(d) == IF d \in ValidDates THEN NoError ELSE BadDate

CriminalFormKeys ==
    {"first_name", "last_name", "dob", "gender", "national_id", "address", "status", "danger_level"}

AlSmith ==
    [keys |-> CriminalFormKeys,
     first_name |-> <<"A","l">>, last_name |-> <<"S","m","i","t","h">>,
     dob |-> "1990-05-17", gender |-> "Male", national_id |-> <<"N","7">>,
     address |-> "12 Hill Road", status |-> "Wanted", danger_level |-> "High"]

CriminalForms ==
    { AlSmith,
      [AlSmith EXCEPT !.first_name = <<"B","o">>, !.last_name = <<"L","_","m">>,
                      !.national_id = <<"5","%">>, !.status = "Arrested"],
      [AlSmith EXCEPT !.dob = "17/05/1990"],
      [AlSmith EXCEPT !.keys = CriminalFormKeys \ {"dob"}] }

CaseFormKeys ==
    {"case_title", "description", "date_reported", "status", "priority",
     "location_id", "investigating_officer"}

TheftCase ==
    [keys |-> CaseFormKeys \cup {"date_closed"},
     case_title |-> <<"T","h","e","f","t">>, description |-> <<"c","a","r">>,
     date_reported |-> "2025-03-01", date_closed |-> "",
     status |-> <<"O","p","e","n">>, priority |-> "High",
     location_id |-> 1, investigating_officer |-> 1]

CaseForms ==
    { TheftCase,
      [TheftCase EXCEPT !.case_title = <<"A","r","s","o","n">>, !.description = <<"C","A","S","E">>,
                        !.status = <<"C","l","o","s","e","d">>, !.date_closed = "2025-03-01"],
      [TheftCase EXCEPT !.date_reported = "yesterday"],
      [TheftCase EXCEPT !.keys = CaseFormKeys \ {"status"}] }

----------------------------------------------------------------------------
(* Tables and statements *)

\* the row sp_AddCriminalWithCase / UPDATE Criminal writes from the form
CriminalRow(form) ==
    [FirstName |-> form.first_name, LastName |-> form.last_name,
     DateOfBirth |-> form.dob, Gender |-> form.gender, NationalID |-> form.national_id,
     Address |-> form.address, Status |-> form.status, DangerLevel |-> form.danger_level]

\* SELECT sp_AddCriminalWithCase(..., NULL, NULL): one new Criminal row, no case
sp_AddCriminalWithCase(form) ==
    [err |-> DateError(form.dob),
     table |-> (criminal_seq + 1) :> CriminalRow(form) @@ Criminal]

\* UPDATE Criminal SET ... WHERE CriminalID = %s
UpdateCriminal(id, form) ==
    [err |-> DateError(form.dob),
     table |-> [i \in DOMAIN Criminal |-> IF i = id THEN CriminalRow(form) ELSE Criminal[i]]]

\* the foreign key CriminalCase.CriminalID -> Criminal
CriminalReferenced(id) == \E cc \in CriminalCase : cc.CriminalID = id

\* DELETE FROM Criminal WHERE CriminalID = %s
DeleteCriminal(id) ==
    [err |-> IF id \in DOMAIN Criminal /\ CriminalReferenced(id) THEN ForeignKeyError ELSE NoError,
     table |-> [i \in DOMAIN Criminal \ {id} |-> Criminal[i]]]

\* the except branch of delete_criminal
delete_criminal_error_Mut(e) == FlashErr("Error deleting criminal: ", e)
delete_criminal_error(e) ==
    IF InMessage("violates foreign key constraint", e)
    THEN Flash("error", "Error: Cannot delete criminal. They are still associated with one or more cases.")
    ELSE FlashErr("Error deleting criminal: ", e)

\* ids in descending order (ORDER BY ... DESC)
RECURSIVE Descending(_)
Descending(ids) ==
    IF ids = {} THEN <<>>
    ELSE LET m == CHOOSE i \in ids : \A j \in ids : j <= i
         IN <<m>> \o Descending(ids \ {m})

----------------------------------------------------------------------------
\* the reference data of table Crime
CrimeTypes == 1 :> "Burglary" @@ 2 :> "Fraud"

SeedCase ==
    [CaseTitle |-> <<"F","r","a","u","d">>, Description |-> <<"b","a","n","k">>,
     DateReported |-> "2025-03-01", DateClosed |-> "",
     Status |-> <<"U","n","d","e","r"," ","I","n","v","e","s","t","i","g","a","t","i","o","n">>,
     Priority |-> "Low", LocationID |-> 1, InvestigatingOfficer |-> 1,
     CaseNumber |-> <<"C","A","S","E","-","2","0","2","5","0","3","0","1","0","8","1","5","0","0">>]

\* the database as found: one criminal; either no case yet, or one case that
\* the criminal is linked to
Init ==
    /\ session = [c \in Clients |-> EmptySession]
    /\ Criminal = 1 :> CriminalRow(AlSmith)
    /\ criminal_seq = 1
    /\ Crime = CrimeTypes
    /\ \/ CaseTable = <<>> /\ case_seq = 0 /\ CriminalCase = {} /\ CaseCrime = {}
       \/ /\ CaseTable = 1 :> SeedCase
          /\ case_seq = 1
          /\ CriminalCase = {[CriminalID |-> 1, CaseID |-> 1, Role |-> "Suspect"]}
          /\ CaseCrime = {[CaseID |-> 1, CrimeID |-> 2]}
    /\ clock = 0
    /\ resp = Response("c1", "start", "GET")

\* the clock advances by one second
Tick ==
    /\ clock < MaxClock
    /\ clock' = clock + 1
    /\ UNCHANGED <<session, db, criminal_seq, case_seq, resp>>

\* GET /
index(c) ==
    /\ resp' = [Response(c, "index", "GET") EXCEPT !.status = "redirect", !.target = "login"]
    /\ UNCHANGED <<session, db, criminal_seq, case_seq, clock>>

\* GET, POST /login
login(c, method, complete, username, password, fault) ==
    LET r0 == IF method = "POST" /\ complete
              THEN [Response(c, "login", method) EXCEPT
                       !.form = [username |-> username, password |-> password]]
              ELSE Response(c, "login", method)
        rows == OfficerRows(username)
        page(r) == [r EXCEPT !.target = "login.html"]
    IN
    /\ IF method = "GET"
       THEN /\ resp' = page(r0)
            /\ UNCHANGED session
       ELSE IF ~complete
       THEN \* request.form[...] raises BadRequestKeyError
            /\ resp' = [r0 EXCEPT !.status = "abort400"]
            /\ UNCHANGED session
       ELSE IF fault = "connect"
       THEN /\ resp' = ConnectionFailed(r0, "render", "login.html",
                           "Database connection failed! Check .env file and network.")
            /\ UNCHANGED session
       ELSE IF fault = "statement"
       THEN /\ resp' = [page(Served(r0, 1)) EXCEPT !.flashes = FlashErr("Login error: ", ConnectionLost)]
            /\ UNCHANGED session
       ELSE IF rows = {}
       THEN /\ resp' = [page(Served(r0, 1)) EXCEPT !.flashes =
                           Flash("error", "Invalid username or password! Use: admin / admin123")]
            /\ UNCHANGED session
       ELSE \E user \in rows :   \* fetchone()
            IF PasswordMatches(user, password)
            THEN /\ session' = [session EXCEPT ![c] = session_login(@, user)]
                 /\ resp' = [Served(r0, 1) EXCEPT !.status = "redirect", !.target = "dashboard",
                                !.flashes = Flash("success", "Login successful!")]
            ELSE /\ resp' = [page(Served(r0, 1)) EXCEPT !.flashes =
                                Flash("error", "Invalid username or password! Use: admin / admin123")]
                 /\ UNCHANGED session
    /\ UNCHANGED <<db, criminal_seq, case_seq, clock>>

\* GET /logout
logout(c) ==
    /\ session' = [session EXCEPT ![c] = session_clear(@)]
    /\ resp' = [Response(c, "logout", "GET") EXCEPT !.status = "redirect", !.target = "login",
                   !.dropped = session[c].keys \ session_clear(session[c]).keys,
                   !.flashes = Flash("success", "You have been logged out.")]
    /\ UNCHANGED <<db, criminal_seq, case_seq, clock>>

\* GET /criminals
criminals(c, fault) ==
    LET r0 == Response(c, "criminals", "GET") IN
    /\ resp' =
         IF ~LoggedIn(session[c]) THEN RedirectToLogin(c, "criminals", "GET")
         ELSE IF fault = "connect"
         THEN ConnectionFailed(r0, "render", "criminals.html", "Database connection failed!")
         ELSE IF fault = "statement"
         THEN \* no try block: the exception leaves the handler, nothing is closed
              [r0 EXCEPT !.status = "error500", !.opened = TRUE, !.executed = 1]
         ELSE [Served(r0, 1) EXCEPT !.target = "criminals.html",
                                    !.results = Descending(DOMAIN Criminal)]
    /\ UNCHANGED <<session, db, criminal_seq, case_seq, clock>>

\* GET, POST /criminals/add
add_criminal(c, method, form, fault) ==
    LET r0 == Response(c, "add_criminal", method)
        stmt == sp_AddCriminalWithCase(form)
        txn == Transaction(Criminal, stmt.err, stmt.table, fault)
    IN
    IF ~LoggedIn(session[c])
    THEN /\ resp' = RedirectToLogin(c, "add_criminal", method)
         /\ UNCHANGED <<session, db, criminal_seq, case_seq, clock>>
    ELSE IF method = "GET"
    THEN /\ resp' = [r0 EXCEPT !.target = "add_criminal.html"]
         /\ UNCHANGED <<session, db, criminal_seq, case_seq, clock>>
    ELSE IF ~FormComplete(form, CriminalFormKeys)
    THEN /\ resp' = [r0 EXCEPT !.status = "abort400"]
         /\ UNCHANGED <<session, db, criminal_seq, case_seq, clock>>
    ELSE IF fault = "connect"
    THEN /\ resp' = ConnectionFailed(r0, "redirect", "criminals", "Database connection failed!")
         /\ UNCHANGED <<session, db, criminal_seq, case_seq, clock>>
    ELSE /\ txn.ran => criminal_seq < MaxCriminalID
         /\ Criminal' = txn.table
         /\ criminal_seq' = IF txn.ran THEN criminal_seq + 1 ELSE criminal_seq
         /\ resp' = Written(r0, txn, "criminals",
                       IF txn.ok
                       THEN Flash("success", "Successfully added criminal: first_name last_name")
                       ELSE FlashErr("Error adding criminal: ", txn.err))
         /\ UNCHANGED <<session, CaseTable, CriminalCase, Crime, CaseCrime, case_seq, clock>>

\* GET, POST /criminals/edit/<int:criminal_id>
edit_criminal(c, method, criminal_id, form, fault) ==
    LET r0 == [Response(c, "edit_criminal", method) EXCEPT !.id = criminal_id]
        stmt == UpdateCriminal(criminal_id, form)
        txn == Transaction(Criminal, stmt.err, stmt.table, fault)
    IN
    IF ~LoggedIn(session[c])
    THEN /\ resp' = RedirectToLogin(c, "edit_criminal", method)
         /\ UNCHANGED <<session, db, criminal_seq, case_seq, clock>>
    ELSE IF fault = "connect"
    THEN /\ resp' = ConnectionFailed(r0, "redirect", "criminals", "Database connection failed!")
         /\ UNCHANGED <<session, db, criminal_seq, case_seq, clock>>
    ELSE IF method = "POST" /\ ~FormComplete(form, CriminalFormKeys)
    THEN \* request.form[...] raises outside the try block: nothing is closed
         /\ resp' = [r0 EXCEPT !.status = "abort400", !.opened = TRUE]
         /\ UNCHANGED <<session, db, criminal_seq, case_seq, clock>>
    ELSE IF method = "POST"
    THEN /\ Criminal' = txn.table
         /\ resp' = Written(r0, txn, "criminals",
                       IF txn.ok
                       THEN Flash("success", "Criminal record updated successfully!")
                       ELSE FlashErr("Error updating criminal: ", txn.err))
         /\ UNCHANGED <<session, CaseTable, CriminalCase, Crime, CaseCrime, criminal_seq, case_seq, clock>>
    ELSE /\ resp' =
              IF fault = "statement"
              THEN [Served(r0, 1) EXCEPT !.status = "redirect", !.target = "criminals",
                      !.flashes = FlashErr("Error fetching criminal data: ", ConnectionLost)]
              ELSE IF criminal_id \notin DOMAIN Criminal
              THEN [Served(r0, 1) EXCEPT !.status = "redirect", !.target = "criminals",
                      !.flashes = Flash("error", "Criminal not found!")]
              ELSE [Served(r0, 1) EXCEPT !.target = "edit_criminal.html",
                      !.results = <<criminal_id>>]
         /\ UNCHANGED <<session, db, criminal_seq, case_seq, clock>>

\* POST /criminals/delete/<int:criminal_id>
delete_criminal(c, criminal_id, fault) ==
    LET r0 == [Response(c, "delete_criminal", "POST") EXCEPT !.id = criminal_id]
        stmt == DeleteCriminal(criminal_id)
        txn == Transaction(Criminal, stmt.err, stmt.table, fault)
    IN
    IF ~LoggedIn(session[c])
    THEN /\ resp' = RedirectToLogin(c, "delete_criminal", "POST")
         /\ UNCHANGED <<session, db, criminal_seq, case_seq, clock>>
    ELSE IF fault = "connect"
    THEN /\ resp' = ConnectionFailed(r0, "redirect", "criminals", "Database connection failed!")
         /\ UNCHANGED <<session, db, criminal_seq, case_seq, clock>>
    ELSE /\ Criminal' = txn.table
         /\ resp' = Written(r0, txn, "criminals",
                       IF txn.ok
                       THEN Flash("success", "Criminal record deleted successfully.")
                       ELSE delete_criminal_error(txn.err))
         /\ UNCHANGED <<session, CaseTable, CriminalCase, Crime, CaseCrime, criminal_seq, case_seq, clock>>

\* the row INSERT INTO CaseTable writes: DateClosed is left NULL
InsertedCaseRow(form, case_number) ==
    [CaseTitle |-> form.case_title, Description |-> form.description,
     DateReported |-> form.date_reported, DateClosed |-> "",
     Status |-> form.status, Priority |-> form.priority,
     LocationID |-> form.location_id, InvestigatingOfficer |-> form.investigating_officer,
     CaseNumber |-> case_number]

\* INSERT INTO CaseTable (...) VALUES (...)
InsertCase(form, case_number) ==
    [err |-> DateError(form.date_reported),
     table |-> (case_seq + 1) :> InsertedCaseRow(form, case_number) @@ CaseTable]

\* request.form.get('date_closed') or None
date_closed_of(form) == IF "date_closed" \in form.keys THEN form.date_closed ELSE ""

\* the SET list of UPDATE CaseTable
UpdatedCaseRow_Mut(row, form) ==
    [InsertedCaseRow(form, case_number_of(now)) EXCEPT !.DateClosed = date_closed_of(form)]
UpdatedCaseRow(row, form) ==
    [row EXCEPT !.CaseTitle = form.case_title, !.Description = form.description,
                !.DateReported = form.date_reported, !.DateClosed = date_closed_of(form),
                !.Status = form.status, !.Priority = form.priority,
                !.LocationID = form.location_id,
                !.InvestigatingOfficer = form.investigating_officer]

\* UPDATE CaseTable SET ... WHERE CaseID = %s
UpdateCase(id, form) ==
    [err |-> IF DateError(form.date_reported) # NoError THEN BadDate
             ELSE IF date_closed_of(form) # "" THEN DateError(date_closed_of(form))
             ELSE NoError,
     table |-> [i \in DOMAIN CaseTable |->
                  IF i = id THEN UpdatedCaseRow(CaseTable[i], form) ELSE CaseTable[i]]]

\* the foreign key CriminalCase.CaseID -> CaseTable
CaseReferenced(id) ==
    \/ \E cc \in CriminalCase : cc.CaseID = id
    \/ \E cci \in CaseCrime : cci.CaseID = id

\* DELETE FROM CaseTable WHERE CaseID = %s
DeleteCase(id) ==
    [err |-> IF id \in DOMAIN CaseTable /\ CaseReferenced(id) THEN ForeignKeyError ELSE NoError,
     table |-> [i \in DOMAIN CaseTable \ {id} |-> CaseTable[i]]]

\* f"%{query_term}%"
search_pattern(query_term) == <<"%">> \o query_term \o <<"%">>

\* LOWER(column) LIKE LOWER(%s)
Matches(column, pattern) == LIKE(LOWER(column), LOWER(pattern))

\* SELECT * FROM Criminal WHERE ... OR ... OR ...
SearchCriminal(pattern) ==
    {i \in DOMAIN Criminal :
        \/ Matches(Criminal[i].FirstName, pattern)
        \/ Matches(Criminal[i].LastName, pattern)
        \/ Matches(Criminal[i].NationalID, pattern)}

\* SELECT ct.*, ... FROM CaseTable ct LEFT JOIN Location ... WHERE ... OR ... OR ...
SearchCase(pattern) ==
    {i \in DOMAIN CaseTable :
        \/ Matches(CaseTable[i].CaseTitle, pattern)
        \/ Matches(CaseTable[i].Description, pattern)
        \/ Matches(CaseTable[i].CaseNumber, pattern)}

\* the flash after the query: if not search_results ... else ...
search_flash_Mut(results) ==
    IF results = <<>>
    THEN Flash("info", "No results found.")
    ELSE <<[category |-> "success", message |-> "Found n result(s).",
            err |-> NoError, count |-> Len(results) - 1]>>
search_flash(results) ==
    IF results = <<>>
    THEN Flash("info", "No results found.")
    ELSE <<[category |-> "success", message |-> "Found n result(s).",
            err |-> NoError, count |-> Len(results)]>>

\* the scalar counts of the dashboard
DashboardCounts ==
    <<Cardinality(DOMAIN Criminal),
      Cardinality({i \in DOMAIN CaseTable :
          CaseTable[i].Status \in {<<"O","p","e","n">>,
              <<"U","n","d","e","r"," ","I","n","v","e","s","t","i","g","a","t","i","o","n">>}}),
      Cardinality({i \in DOMAIN CaseTable :
          LIKE(CaseTable[i].Status, <<"C","l","o","s","e","d","%">>)})>>

\* GET /dashboard
dashboard(c, fault) ==
    LET r0 == [Response(c, "dashboard", "GET") EXCEPT !.target = "dashboard.html",
                                                      !.results = <<0, 0, 0>>] IN
    /\ resp' =
         IF ~LoggedIn(session[c]) THEN RedirectToLogin(c, "dashboard", "GET")
         ELSE IF fault = "connect"
         THEN ConnectionFailed(r0, "render", "dashboard.html", "Database connection failed!")
         ELSE IF fault = "statement"
         THEN [Served(r0, 1) EXCEPT !.flashes = FlashErr("Error loading dashboard data: ", ConnectionLost)]
         ELSE [Served(r0, 5) EXCEPT !.results = DashboardCounts]
    /\ UNCHANGED <<session, db, criminal_seq, case_seq, clock>>

\* GET /reports
reports(c, fault) ==
    LET r0 == [Response(c, "reports", "GET") EXCEPT !.target = "reports.html"] IN
    /\ resp' =
         IF ~LoggedIn(session[c]) THEN RedirectToLogin(c, "reports", "GET")
         ELSE IF fault = "connect"
         THEN ConnectionFailed(r0, "render", "reports.html", "Database connection failed!")
         ELSE IF fault = "statement"
         THEN [Served(r0, 1) EXCEPT !.flashes = FlashErr("Error loading reports: ", ConnectionLost)]
         ELSE Served(r0, 3)
    /\ UNCHANGED <<session, db, criminal_seq, case_seq, clock>>

\* GET, POST /search
search(c, method, search_type, query_term, fault) ==
    LET \* on GET request.form is empty and both .get() calls give ''
        type == IF method = "POST" THEN search_type ELSE ""
        term == IF method = "POST" THEN query_term ELSE <<>>
        r0 == [Response(c, "search", method) EXCEPT !.target = "search.html",
                                                    !.search_type = type, !.query = term]
        ran == type \in {"criminal", "case"}
        search_results ==
            IF type = "criminal" THEN Descending(SearchCriminal(search_pattern(term)))
            ELSE IF type = "case" THEN Descending(SearchCase(search_pattern(term)))
            ELSE <<>>
    IN
    /\ resp' =
         IF ~LoggedIn(session[c]) THEN RedirectToLogin(c, "search", method)
         ELSE IF method = "GET" THEN r0
         ELSE IF term = <<>> \/ type = ""
         THEN [r0 EXCEPT !.flashes =
                  Flash("warning", "Please select a search type and enter a query.")]
         ELSE IF fault = "connect"
         THEN ConnectionFailed(r0, "render", "search.html", "Database connection failed!")
         ELSE IF fault = "statement" /\ ran
         THEN [Served(r0, 1) EXCEPT !.flashes = FlashErr("Search error: ", ConnectionLost)]
         ELSE [Served(r0, IF ran THEN 1 ELSE 0) EXCEPT !.results = search_results,
                                                       !.flashes = search_flash(search_results)]
    /\ UNCHANGED <<session, db, criminal_seq, case_seq, clock>>

\* a column value of a joined row: NULL, or a string
Null == [null |-> TRUE, value |-> <<>>]
Val(s) == [null |-> FALSE, value |-> s]

\* CONCAT(a, ' ', b): the arguments that are NULL are left out
CONCAT(a, sep, b) ==
    Val((IF a.null THEN <<>> ELSE a.value) \o sep \o (IF b.null THEN <<>> ELSE b.value))

\* the rows of one case after the four LEFT JOINs: one for every pair of an
\* associated criminal and an associated crime, with NULLs where a side has no
\* row
CaseJoin(id) ==
    LET cs == {cc.CriminalID : cc \in {x \in CriminalCase : x.CaseID = id}}
        crs == {cci.CrimeID : cci \in {x \in CaseCrime : x.CaseID = id}}
        left == IF cs = {} THEN {0} ELSE cs
        right == IF crs = {} THEN {0} ELSE crs
    IN {[c |-> j, FirstName |-> IF j = 0 THEN Null ELSE Val(Criminal[j].FirstName),
         LastName |-> IF j = 0 THEN Null ELSE Val(Criminal[j].LastName),
         cr |-> k, CrimeType |-> IF k = 0 THEN Null ELSE Val(Crime[k])]
        : j \in left, k \in right}

\* STRING_AGG(DISTINCT value, ', ') over the values a column has in the rows
\* of a group: NULL when no row has a value, otherwise the distinct values
\* that are not NULL, each once
STRING_AGG(column) ==
    LET values == {x.value : x \in {y \in column : ~y.null}}
    IN [null |-> values = {}, items |-> [v \in values |-> 1]]

FullName(r) == CONCAT(r.FirstName, <<" ">>, r.LastName)
CrimeTypeOf(r) == r.CrimeType

\* the SELECT of cases: GROUP BY ct.CaseID ... ORDER BY ct.CaseID DESC
CaseListing ==
    LET ids == Descending(DOMAIN CaseTable)
    IN [n \in 1..Len(ids) |->
          [CaseID |-> ids[n], CaseTitle |-> CaseTable[ids[n]].CaseTitle,
           criminals |-> STRING_AGG({FullName(r) : r \in CaseJoin(ids[n])}),
           crimes |-> STRING_AGG({CrimeTypeOf(r) : r \in CaseJoin(ids[n])})]]

\* GET /cases
cases(c, fault) ==
    LET r0 == [Response(c, "cases", "GET") EXCEPT !.target = "cases.html"] IN
    /\ resp' =
         IF ~LoggedIn(session[c]) THEN RedirectToLogin(c, "cases", "GET")
         ELSE IF fault = "connect"
         THEN ConnectionFailed(r0, "render", "cases.html", "Database connection failed!")
         ELSE IF fault = "statement"
         THEN [Served(r0, 1) EXCEPT !.flashes = FlashErr("Error loading cases: ", ConnectionLost)]
         ELSE [Served(r0, 1) EXCEPT !.results = CaseListing]
    /\ UNCHANGED <<session, db, criminal_seq, case_seq, clock>>

\* GET, POST /cases/add
add_case(c, method, form, fault) ==
    LET r0 == Response(c, "add_case", method)
        case_number == case_number_of(now)
        stmt == InsertCase(form, case_number)
        txn == Transaction(CaseTable, stmt.err, stmt.table, fault)
    IN
    IF ~LoggedIn(session[c])
    THEN /\ resp' = RedirectToLogin(c, "add_case", method)
         /\ UNCHANGED <<session, db, criminal_seq, case_seq, clock>>
    ELSE IF fault = "connect"
    THEN /\ resp' = ConnectionFailed(r0, "redirect", "cases", "Database connection failed!")
         /\ UNCHANGED <<session, db, criminal_seq, case_seq, clock>>
    ELSE IF method = "POST" /\ ~FormComplete(form, CaseFormKeys)
    THEN \* request.form[...] raises inside the try block
         /\ resp' = [Served(r0, 0) EXCEPT !.status = "redirect", !.target = "cases",
                        !.rolledback = TRUE,
                        !.flashes = FlashErr("Error adding case: ", BadRequestKeyError)]
         /\ UNCHANGED <<session, db, criminal_seq, case_seq, clock>>
    ELSE IF method = "POST"
    THEN /\ txn.ran => case_seq < MaxCaseID
         /\ CaseTable' = txn.table
         /\ case_seq' = IF txn.ran THEN case_seq + 1 ELSE case_seq
         /\ resp' = Written(r0, txn, "cases",
                       IF txn.ok
                       THEN Flash("success", "Case added successfully!")
                       ELSE FlashErr("Error adding case: ", txn.err))
         /\ UNCHANGED <<session, Criminal, CriminalCase, Crime, CaseCrime, criminal_seq, clock>>
    ELSE /\ resp' =
              IF fault = "statement"
              THEN [Served(r0, 1) EXCEPT !.status = "redirect", !.target = "cases",
                      !.flashes = FlashErr("Error loading page: ", ConnectionLost)]
              ELSE [Served(r0, 1) EXCEPT !.target = "add_case.html"]
         /\ UNCHANGED <<session, db, criminal_seq, case_seq, clock>>

\* GET, POST /cases/edit/<int:case_id>
edit_case(c, method, case_id, form, fault) ==
    LET r0 == [Response(c, "edit_case", method) EXCEPT !.id = case_id]
        stmt == UpdateCase(case_id, form)
        txn == Transaction(CaseTable, stmt.err, stmt.table, fault)
    IN
    IF ~LoggedIn(session[c])
    THEN /\ resp' = RedirectToLogin(c, "edit_case", method)
         /\ UNCHANGED <<session, db, criminal_seq, case_seq, clock>>
    ELSE IF fault = "connect"
    THEN /\ resp' = ConnectionFailed(r0, "redirect", "cases", "Database connection failed!")
         /\ UNCHANGED <<session, db, criminal_seq, case_seq, clock>>
    ELSE IF method = "POST" /\ ~FormComplete(form, CaseFormKeys)
    THEN /\ resp' = [Served(r0, 0) EXCEPT !.status = "redirect", !.target = "cases",
                        !.rolledback = TRUE,
                        !.flashes = FlashErr("Error updating case: ", BadRequestKeyError)]
         /\ UNCHANGED <<session, db, criminal_seq, case_seq, clock>>
    ELSE IF method = "POST"
    THEN /\ CaseTable' = txn.table
         /\ resp' = Written(r0, txn, "cases",
                       IF txn.ok
                       THEN Flash("success", "Case updated successfully!")
                       ELSE FlashErr("Error updating case: ", txn.err))
         /\ UNCHANGED <<session, Criminal, CriminalCase, Crime, CaseCrime, criminal_seq, case_seq, clock>>
    ELSE /\ resp' =
              IF fault = "statement"
              THEN [Served(r0, 1) EXCEPT !.status = "redirect", !.target = "cases",
                      !.flashes = FlashErr("Error fetching case data: ", ConnectionLost)]
              ELSE IF case_id \notin DOMAIN CaseTable
              THEN [Served(r0, 2) EXCEPT !.status = "redirect", !.target = "cases",
                      !.flashes = Flash("error", "Case not found!")]
              ELSE [Served(r0, 2) EXCEPT !.target = "edit_case.html", !.results = <<case_id>>]
         /\ UNCHANGED <<session, db, criminal_seq, case_seq, clock>>

\* POST /cases/delete/<int:case_id>
delete_case(c, case_id, fault) ==
    LET r0 == [Response(c, "delete_case", "POST") EXCEPT !.id = case_id]
        stmt == DeleteCase(case_id)
        txn == Transaction(CaseTable, stmt.err, stmt.table, fault)
    IN
    IF ~LoggedIn(session[c])
    THEN /\ resp' = RedirectToLogin(c, "delete_case", "POST")
         /\ UNCHANGED <<session, db, criminal_seq, case_seq, clock>>
    ELSE IF fault = "connect"
    THEN /\ resp' = ConnectionFailed(r0, "redirect", "cases", "Database connection failed!")
         /\ UNCHANGED <<session, db, criminal_seq, case_seq, clock>>
    ELSE /\ CaseTable' = txn.table
         /\ resp' = Written(r0, txn, "cases",
                       IF txn.ok
                       THEN Flash("success", "Case deleted successfully.")
                       ELSE FlashErr("Error deleting case: ", txn.err))
         /\ UNCHANGED <<session, Criminal, CriminalCase, Crime, CaseCrime, criminal_seq, case_seq, clock>>

--------------------------------------------------------------------------------------------------------------------------------------------------
(* Requests *)

Methods == {"GET", "POST"}
CriminalIDs == 1..MaxCriminalID
CaseIDs == 1..MaxCaseID

SearchTypes == {"", "criminal", "case", "vehicle"}
Smith == <<"s","m","i","t","h">>
Queries ==
    { <<>>, Smith, <<"S","M">>, <<"z","z">>, <<"c","a","s","e","-">>,
      <<"_">>, <<"%">>, <<"l","_","m">>, <<"\\","_">>, <<"5","%">> }
Searches == [search_type : SearchTypes, query : Queries]

\* a GET carries no form; only a POST that finds its fields gets to the database
LoginRequests(usernames, faults) ==
    {[method |-> "GET", complete |-> FALSE, username |-> "", password |-> "", fault |-> "none"],
     [method |-> "POST", complete |-> FALSE, username |-> "", password |-> "", fault |-> "none"]}
    \cup [method : {"POST"}, complete : {TRUE}, username : usernames, password : Passwords,
          fault : faults \ {"commit"}]

SearchRequests(searches, faults) ==
    {[method |-> "GET", search_type |-> "", query |-> <<>>, fault |-> "none"]}
    \cup {[method |-> "POST", search_type |-> s.search_type, query |-> s.query, fault |-> f] :
            s \in searches, f \in faults \ {"commit"}}

FormRequests(methods, forms, faults) ==
    [method : methods \cap {"GET"}, form : {CHOOSE f \in forms : TRUE}, fault : faults \ {"commit"}]
    \cup [method : methods \cap {"POST"}, form : forms, fault : faults]

LoggingIn(usernames, faults) ==
    \E c \in Clients, r \in LoginRequests(usernames, faults) :
        login(c, r.method, r.complete, r.username, r.password, r.fault)

\* the routes that ask for no identity
SessionRequests(usernames, faults) ==
    \/ \E c \in Clients : index(c)
    \/ LoggingIn(usernames, faults)
    \/ \E c \in Clients : logout(c)

\* the read-only views
ViewRequests(faults) ==
    \/ \E c \in Clients, fault \in faults \ {"commit"} : dashboard(c, fault)
    \/ \E c \in Clients, fault \in faults \ {"commit"} : reports(c, fault)
    \/ \E c \in Clients, fault \in faults \ {"commit"} : criminals(c, fault)
    \/ \E c \in Clients, fault \in faults \ {"commit"} : cases(c, fault)

SearchingRequests(searches, faults) ==
    \E c \in Clients, r \in SearchRequests(searches, faults) :
        search(c, r.method, r.search_type, r.query, r.fault)

CriminalRequests(methods, forms, faults) ==
    \/ \E c \in Clients, r \in FormRequests(methods, forms, faults) :
          add_criminal(c, r.method, r.form, r.fault)
    \/ \E c \in Clients, id \in CriminalIDs, r \in FormRequests(methods, forms, faults) :
          edit_criminal(c, r.method, id, r.form, r.fault)
    \/ \E c \in Clients, id \in CriminalIDs, fault \in faults : delete_criminal(c, id, fault)

CaseRequests(methods, forms, faults) ==
    \/ \E c \in Clients, r \in FormRequests(methods, forms, faults) :
          add_case(c, r.method, r.form, r.fault)
    \/ \E c \in Clients, id \in CaseIDs, r \in FormRequests(methods, forms, faults) :
          edit_case(c, r.method, id, r.form, r.fault)
    \/ \E c \in Clients, id \in CaseIDs, fault \in faults : delete_case(c, id, fault)

\* every request a client can send, and the passing of time
Next ==
    \/ Tick
    \/ SessionRequests(Usernames, Faults)
    \/ ViewRequests(Faults)
    \/ SearchingRequests(Searches, Faults)
    \/ CriminalRequests(Methods, CriminalForms, Faults)
    \/ CaseRequests(Methods, CaseForms, Faults)

Spec == Init /\ [][Next]_vars

\* The specifications below are Spec with the requests drawn from fewer inputs.

Reachable == {"none", "connect"}
OneSearch == {[search_type |-> "criminal", query |-> Smith]}

\* every route, with one form per entity and a database that either answers
\* or cannot be reached
NextRoutes ==
    \/ SessionRequests({"admin"}, Reachable)
    \/ ViewRequests(Reachable)
    \/ SearchingRequests(OneSearch, Reachable)
    \/ CriminalRequests(Methods, {AlSmith}, Reachable)
    \/ CaseRequests(Methods, {TheftCase}, Reachable)

SpecRoutes == Init /\ [][NextRoutes]_vars

\* logging in and out, with every credential and fault, and one protected view
NextLogin ==
    \/ SessionRequests(Usernames, Faults)
    \/ \E c \in Clients : dashboard(c, "none")

SpecLogin == Init /\ [][NextLogin]_vars

\* the writes: POSTs to the write handlers of both entities with every fault;
\* each form is one that changes the rows found, one with a malformed date,
\* or one with a missing field
NextWrites ==
    \/ LoggingIn({"admin"}, {"none"})
    \/ CriminalRequests({"POST"}, CriminalForms \ {AlSmith}, Faults)
    \/ CaseRequests({"POST"}, CaseForms \ {TheftCase}, Faults)

SpecWrites == Init /\ [][NextWrites]_vars

\* the criminal handlers, with every form and fault
NextCriminals ==
    \/ LoggingIn({"admin"}, {"none"})
    \/ CriminalRequests(Methods, CriminalForms, Faults)

SpecCriminals == Init /\ [][NextCriminals]_vars

\* the case handlers, with every form and fault, while the clock runs
NextCases ==
    \/ Tick
    \/ LoggingIn({"admin"}, {"none"})
    \/ CaseRequests(Methods, CaseForms, Faults)

SpecCases == Init /\ [][NextCases]_vars
\* searching, with every search and fault, over the rows that adding
\* criminals and cases leaves
NextSearch ==
    \/ LoggingIn({"admin"}, {"none"})
    \/ \E c \in Clients, form \in {f \in CriminalForms : CriminalRow(f) # CriminalRow(AlSmith)} :
          add_criminal(c, "POST", form, "none")
    \/ \E c \in Clients, form \in CaseForms : add_case(c, "POST", form, "none")
    \/ SearchingRequests(Searches, Faults)

SpecSearch == Init /\ [][NextSearch]_vars

\* a database found with two criminals and any associations of the first
\* case with them and with the crime types
InitListing ==
    /\ session = [c \in Clients |-> EmptySession]
    /\ \E form \in {f \in CriminalForms : FormComplete(f, CriminalFormKeys) /\ DateError(f.dob) = NoError} :
          Criminal = 1 :> CriminalRow(AlSmith) @@ 2 :> CriminalRow(form)
    /\ criminal_seq = 2
    /\ Crime = CrimeTypes
    /\ \/ CaseTable = <<>> /\ case_seq = 0 /\ CriminalCase = {} /\ CaseCrime = {}
       \/ /\ CaseTable = 1 :> SeedCase
          /\ case_seq = 1
          /\ CriminalCase \in SUBSET {[CriminalID |-> j, CaseID |-> 1, Role |-> "Suspect"] : j \in 1..2}
          /\ CaseCrime \in SUBSET {[CaseID |-> 1, CrimeID |-> k] : k \in DOMAIN CrimeTypes}
    /\ clock = 0
    /\ resp = Response("c1", "start", "GET")

\* listing the cases, with every fault, while cases are added and deleted
NextListing ==
    \/ LoggingIn({"admin"}, {"none"})
    \/ \E c \in Clients, form \in CaseForms : add_case(c, "POST", form, "none")
    \/ \E c \in Clients, id \in CaseIDs : delete_case(c, id, "none")
    \/ \E c \in Clients, fault \in Faults : cases(c, fault)

SpecListing == InitListing /\ [][NextListing]_vars

\* every handler without a connection, with every form and search, while
\* logins and the case handlers also run with one
NextUnavailable ==
    \/ SessionRequests({"admin"}, Reachable)
    \/ ViewRequests({"connect"})
    \/ SearchingRequests({s \in Searches : s.query \in {<<>>, Smith}}, {"connect"})
    \/ CriminalRequests(Methods, CriminalForms, {"connect"})
    \/ CaseRequests(Methods, CaseForms, Reachable)

SpecUnavailable == Init /\ [][NextUnavailable]_vars

----------------------------------------------------------------------------
(* Properties *)

ProtectedRoutes ==
    {"dashboard", "reports", "search", "criminals", "add_criminal", "edit_criminal",
     "delete_criminal", "cases", "add_case", "edit_case", "delete_case"}

InvalidCredentials == Flash("error", "Invalid username or password! Use: admin / admin123")
LoginSuccessful == Flash("success", "Login successful!")

\* the database was reached and answered every statement of the request
DatabaseAnswered(r) ==
    r.opened /\ \A i \in 1..Len(r.flashes) : r.flashes[i].err # ConnectionLost

\* C1: a request to a protected route from a session without officer_id is
\* answered by a redirect to login; it opens no connection, executes no
\* statement, commits nothing and leaves the database and the session as they
\* were.  Checked for every protected route and both methods.
AuthGuard ==
    [][\A c \in Clients :
         ("officer_id" \notin session[c].keys /\ resp'.client = c
              /\ resp'.route \in ProtectedRoutes)
         => /\ resp'.status = "redirect" /\ resp'.target = "login"
            /\ ~resp'.opened /\ resp'.executed = 0 /\ ~resp'.committed
            /\ UNCHANGED <<db, session>>]_vars

\* C1 witness: after criminals were added under an identity and the session
\* lost it, a POST to delete_criminal was turned away.
AuthGuardWitness ==
    /\ resp.route = "delete_criminal" /\ resp.method = "POST"
    /\ resp.status = "redirect" /\ resp.target = "login"
    /\ "officer_id" \notin session[resp.client].keys
    /\ criminal_seq > 1

\* C2: when the database answers a POST /login, the session gets the identity
\* (id, username, display name) of the officer whose username and stored
\* password equal the submitted ones; if there is no such officer the answer
\* is the one invalid-credentials page, whether the username is unknown or the
\* password wrong.  A login that does not succeed leaves every session as it was.
LoginDecides ==
    /\ [](resp.route = "login" /\ resp.method = "POST" /\ resp.form # <<>>
             /\ DatabaseAnswered(resp)
          => LET officers == {u \in LawEnforcement :
                                 /\ u.username = resp.form.username
                                 /\ u.passwordhash = resp.form.password}
             IN IF officers # {}
                THEN /\ resp.status = "redirect" /\ resp.target = "dashboard"
                     /\ \E u \in officers :
                          session[resp.client] =
                              [keys |-> SessionKeys, officer_id |-> u.officerid,
                               username |-> u.username,
                               officer_name |-> u.firstname \o " " \o u.lastname]
                ELSE /\ resp.status = "render" /\ resp.target = "login.html"
                     /\ resp.flashes = InvalidCredentials)
    /\ [][(resp'.route = "login" /\ resp'.flashes # LoginSuccessful)
             => session' = session]_vars

\* C2 witness: a wrong password for one officer was refused while the session
\* held another officer's identity.
LoginDecidesWitness ==
    /\ resp.route = "login" /\ resp.method = "POST" /\ resp.form # <<>>
    /\ resp.flashes = InvalidCredentials
    /\ resp.form.username = "admin"
    /\ "officer_id" \in session[resp.client].keys
    /\ session[resp.client].username = "ravi"

\* C3: after GET /logout the session holds none of officer_id, username,
\* officer_name; a session without officer_id is turned away from every
\* protected route, and gets an officer_id again only by a successful login of
\* that client; logout leaves the database as it was.
LogoutClears ==
    /\ [](resp.route = "logout" => session[resp.client].keys \cap SessionKeys = {})
    /\ [](\A c \in Clients :
             (resp.client = c /\ resp.route \in ProtectedRoutes
                  /\ "officer_id" \notin session[c].keys)
             => (resp.status = "redirect" /\ resp.target = "login"))
    /\ [][\A c \in Clients :
             ("officer_id" \notin session[c].keys /\ "officer_id" \in session'[c].keys)
             => (resp'.route = "login" /\ resp'.client = c
                     /\ resp'.flashes = LoginSuccessful)]_vars
    /\ [][resp'.route = "logout" => db' = db]_vars

\* C3 witness: a logout dropped all three identity keys of a session, after
\* the database had been written to.
LogoutClearsWitness ==
    /\ resp.route = "logout"
    /\ resp.dropped = SessionKeys
    /\ session[resp.client].keys = {}
    /\ criminal_seq > 1

DeleteSucceeded == Flash("success", "Criminal record deleted successfully.")
StillAssociated ==
    Flash("error", "Error: Cannot delete criminal. They are still associated with one or more cases.")

\* C4: when the database answers an authenticated POST /criminals/delete/{id}:
\* if a CriminalCase row references id, the answer is the foreign-key message
\* and no row of any table changes; otherwise the delete is committed, no
\* Criminal row has that id afterwards and every other row is as it was.
DeleteCriminalOutcome ==
    [][(resp'.route = "delete_criminal" /\ DatabaseAnswered(resp'))
         => IF \E cc \in CriminalCase : cc.CriminalID = resp'.id
            THEN /\ resp'.flashes = StillAssociated
                 /\ ~resp'.committed
                 /\ resp'.id \in DOMAIN Criminal'
                 /\ db' = db
            ELSE /\ resp'.flashes = DeleteSucceeded
                 /\ resp'.committed
                 /\ resp'.id \notin DOMAIN Criminal'
                 /\ DOMAIN Criminal' = DOMAIN Criminal \ {resp'.id}
                 /\ \A j \in DOMAIN Criminal' : Criminal'[j] = Criminal[j]
                 /\ UNCHANGED <<CaseTable, CriminalCase>>]_vars

\* C4 witness: the delete of a criminal that a CriminalCase row references was
\* refused, with a second criminal in the table.
DeleteCriminalOutcomeWitness ==
    /\ resp.route = "delete_criminal"
    /\ resp.flashes = StillAssociated
    /\ \E cc \in CriminalCase : cc.CriminalID = resp.id
    /\ resp.id \in DOMAIN Criminal
    /\ Cardinality(DOMAIN Criminal) = 2

WriteRoutes ==
    {"add_criminal", "edit_criminal", "delete_criminal", "add_case", "edit_case", "delete_case"}

SuccessReported(r) == \E i \in 1..Len(r.flashes) : r.flashes[i].category = "success"
ErrorReported(r) ==
    r.status = "abort400" \/ \E i \in 1..Len(r.flashes) : r.flashes[i].category = "error"

\* C5: an authenticated POST to a write route that does not commit leaves all
\* three tables as they were, reports an error and no success, and has rolled
\* back if it got to execute its statement; success is reported only by a
\* request that committed.
WriteAtomic ==
    [][(resp'.route \in WriteRoutes /\ resp'.method = "POST"
            /\ ~(resp'.status = "redirect" /\ resp'.target = "login"))
         => /\ SuccessReported(resp') => resp'.committed
            /\ ~resp'.committed =>
                  /\ db' = db
                  /\ ErrorReported(resp') /\ ~SuccessReported(resp')
                  /\ resp'.executed > 0 => resp'.rolledback]_vars

\* C5 witness: an add_case whose INSERT ran and whose commit failed: the
\* sequence moved on, no row was left, the error was reported.
WriteAtomicWitness ==
    /\ resp.route = "add_case" /\ resp.method = "POST"
    /\ resp.rolledback /\ ~resp.committed
    /\ resp.flashes = FlashErr("Error adding case: ", ConnectionLost)
    /\ case_seq \notin DOMAIN CaseTable
    /\ case_seq = MaxCaseID

\* C6 (as claimed): an authenticated POST to edit_criminal or edit_case whose
\* id matches no row reports no success; when no error is raised, it answers
\* with the not-found message.
UpdateOfMissingIsNotFound ==
    /\ (resp.route = "edit_criminal" /\ resp.method = "POST" /\ resp.executed > 0
            /\ resp.id \notin DOMAIN Criminal)
       => /\ ~SuccessReported(resp)
          /\ resp.committed => resp.flashes = Flash("error", "Criminal not found!")
    /\ (resp.route = "edit_case" /\ resp.method = "POST" /\ resp.executed > 0
            /\ resp.id \notin DOMAIN CaseTable)
       => /\ ~SuccessReported(resp)
          /\ resp.committed => resp.flashes = Flash("error", "Case not found!")

DigitSet == {Digits[i] : i \in 1..Len(Digits)}

\* CASE- followed by 14 digits
WellFormedCaseNumber(n) ==
    /\ Len(n) = 19
    /\ SubSeq(n, 1, 5) = <<"C","A","S","E","-">>
    /\ \A k \in 6..19 : n[k] \in DigitSet

\* C7 (as claimed): no two CaseTable rows have the same CaseNumber, and every
\* CaseNumber is CASE- followed by 14 digits.
CaseNumbersUnique ==
    /\ \A i, j \in DOMAIN CaseTable :
          i # j => CaseTable[i].CaseNumber # CaseTable[j].CaseNumber
    /\ \A i \in DOMAIN CaseTable : WellFormedCaseNumber(CaseTable[i].CaseNumber)

\* C8: no step changes the CaseNumber of a CaseTable row that is there before
\* and after it.
CaseNumberImmutable ==
    [][\A i \in DOMAIN CaseTable \cap DOMAIN CaseTable' :
          CaseTable'[i].CaseNumber = CaseTable[i].CaseNumber]_vars

\* C8 witness: edit_case replaced the fields of the case found in the
\* database, which still has the number it came with.
CaseNumberImmutableWitness ==
    /\ resp.route = "edit_case" /\ resp.method = "POST" /\ resp.committed
    /\ resp.id \in DOMAIN CaseTable
    /\ CaseTable[resp.id].CaseTitle = TheftCase.case_title
    /\ CaseTable[resp.id].CaseNumber = SeedCase.CaseNumber

Range(seq) == {seq[i] : i \in 1..Len(seq)}

\* q occurs in s as a run of consecutive characters
Contains(s, q) == \E k \in 0..(Len(s) - Len(q)) : SubSeq(s, k + 1, k + Len(q)) = q
ContainsIgnoringCase(s, q) == Contains(LOWER(s), LOWER(q))

\* C9 (as claimed): a search the database answers, of type criminal (case)
\* with a non-empty query q, returns exactly the rows in which first name,
\* last name or national id (title, description or case number) contains q,
\* ignoring case.
SearchIsSubstringMatch ==
    (resp.route = "search" /\ resp.method = "POST" /\ resp.query # <<>>
         /\ resp.search_type \in {"criminal", "case"} /\ DatabaseAnswered(resp))
    => Range(resp.results) =
          IF resp.search_type = "criminal"
          THEN {i \in DOMAIN Criminal :
                   \/ ContainsIgnoringCase(Criminal[i].FirstName, resp.query)
                   \/ ContainsIgnoringCase(Criminal[i].LastName, resp.query)
                   \/ ContainsIgnoringCase(Criminal[i].NationalID, resp.query)}
          ELSE {i \in DOMAIN CaseTable :
                   \/ ContainsIgnoringCase(CaseTable[i].CaseTitle, resp.query)
                   \/ ContainsIgnoringCase(CaseTable[i].Description, resp.query)
                   \/ ContainsIgnoringCase(CaseTable[i].CaseNumber, resp.query)}

\* C10: an authenticated POST /search with an empty query or no type opens no
\* connection, executes nothing and answers with no rows and the warning.
\* Otherwise, when the database answers, there is exactly one message: with
\* no rows returned it is the informational one, with n > 0 rows the result
\* has n distinct rows, the rows the query matches, and the message counts n.
SearchOutcome ==
    (resp.route = "search" /\ resp.method = "POST"
         /\ ~(resp.status = "redirect" /\ resp.target = "login"))
    => IF resp.query = <<>> \/ resp.search_type = ""
       THEN /\ ~resp.opened /\ resp.executed = 0
            /\ resp.results = <<>>
            /\ resp.flashes = Flash("warning", "Please select a search type and enter a query.")
       ELSE DatabaseAnswered(resp) =>
            LET n == Len(resp.results)
                matched == IF resp.search_type = "criminal"
                           THEN SearchCriminal(search_pattern(resp.query))
                           ELSE IF resp.search_type = "case"
                           THEN SearchCase(search_pattern(resp.query))
                           ELSE {}
            IN /\ Len(resp.flashes) = 1
               /\ Range(resp.results) = matched /\ Cardinality(matched) = n
               /\ n = 0 => resp.flashes = Flash("info", "No results found.")
               /\ n > 0 => /\ resp.executed = 1
                           /\ resp.flashes[1].category = "success"
                           /\ resp.flashes[1].message = "Found n result(s)."
                           /\ resp.flashes[1].count = n

\* C10 witness: a search matched two rows and said so.
SearchOutcomeWitness ==
    /\ resp.route = "search" /\ resp.method = "POST"
    /\ Len(resp.results) = 2
    /\ resp.flashes[1].category = "success" /\ resp.flashes[1].count = 2

\* an aggregate field that shows nothing: NULL, or the empty string
EmptyAggregate(f) == f.null \/ DOMAIN f.items \subseteq {<<>>}

\* the aggregate field lists exactly these values, each once
ListsOnce(f, values) == ~f.null /\ DOMAIN f.items = values /\ \A v \in values : f.items[v] = 1

\* C11 (as claimed): the case list the database answers GET /cases with has
\* every CaseTable row exactly once, in descending id order; a case without
\* associated criminals (crimes) has an empty criminals (crimes) field, and
\* otherwise the field lists each distinct full name (crime type) once.
CaseListingAggregates ==
    (resp.route = "cases" /\ DatabaseAnswered(resp))
    => LET rows == resp.results IN
       /\ Len(rows) = Cardinality(DOMAIN CaseTable)
       /\ {rows[n].CaseID : n \in 1..Len(rows)} = DOMAIN CaseTable
       /\ \A n, m \in 1..Len(rows) : n < m => rows[n].CaseID > rows[m].CaseID
       /\ \A n \in 1..Len(rows) :
             LET names == {Criminal[cc.CriminalID].FirstName \o <<" ">> \o Criminal[cc.CriminalID].LastName :
                             cc \in {x \in CriminalCase : x.CaseID = rows[n].CaseID}}
                 types == {Crime[cci.CrimeID] :
                             cci \in {x \in CaseCrime : x.CaseID = rows[n].CaseID}}
             IN /\ IF names = {} THEN EmptyAggregate(rows[n].criminals)
                                 ELSE ListsOnce(rows[n].criminals, names)
                /\ IF types = {} THEN EmptyAggregate(rows[n].crimes)
                                 ELSE ListsOnce(rows[n].crimes, types)

\* a request of client c that reaches get_db_connection() and gets None; the
\* response repeats the id and the search the request came with
ConnectionUnavailable(c) ==
    \/ \E username \in Usernames, password \in Passwords :
          login(c, "POST", TRUE, username, password, "connect")
    \/ /\ "officer_id" \in session[c].keys
       /\ \/ dashboard(c, "connect") \/ reports(c, "connect")
          \/ criminals(c, "connect") \/ cases(c, "connect")
          \/ /\ resp'.query # <<>> /\ resp'.search_type # ""
             /\ search(c, "POST", resp'.search_type, resp'.query, "connect")
          \/ \E form \in CriminalForms :
                FormComplete(form, CriminalFormKeys) /\ add_criminal(c, "POST", form, "connect")
          \/ \E method \in Methods, form \in CriminalForms :
                edit_criminal(c, method, resp'.id, form, "connect")
          \/ delete_criminal(c, resp'.id, "connect")
          \/ \E method \in Methods, form \in CaseForms : add_case(c, method, form, "connect")
          \/ \E method \in Methods, form \in CaseForms :
                edit_case(c, method, resp'.id, form, "connect")
          \/ delete_case(c, resp'.id, "connect")

DatabaseUnavailableMessages ==
    {"Database connection failed!", "Database connection failed! Check .env file and network."}

\* C12: a request that needs the database and gets no connection ends as a
\* rendered page or a redirect with one error message saying that the
\* connection failed, executes nothing, and changes neither a table nor a
\* session; the read views render, with no rows and zero counts.
DatabaseUnavailable ==
    [][\A c \in Clients :
         ConnectionUnavailable(c)
         => /\ resp'.status \in {"render", "redirect"} /\ resp'.target # ""
            /\ ~resp'.opened /\ resp'.executed = 0 /\ ~resp'.committed
            /\ Len(resp'.flashes) = 1
            /\ resp'.flashes[1].category = "error"
            /\ resp'.flashes[1].message \in DatabaseUnavailableMessages
            /\ db' = db /\ session' = session
            /\ UNCHANGED <<criminal_seq, case_seq>>
            /\ resp'.route \in {"dashboard", "reports", "criminals", "cases", "search"}
                 => /\ resp'.status = "render"
                    /\ resp'.results = IF resp'.route = "dashboard" THEN <<0, 0, 0>> ELSE <<>>]_vars

\* C12 witness: the dashboard of a logged-in officer, rendered with zero
\* counts and the message while the tables have rows.
DatabaseUnavailableWitness ==
    /\ resp.route = "dashboard" /\ resp.status = "render"
    /\ resp.results = <<0, 0, 0>>
    /\ resp.flashes = Flash("error", "Database connection failed!")
    /\ "officer_id" \in session[resp.client].keys
    /\ Cardinality(DOMAIN CaseTable) = 2

\* C13 (as claimed): a request that has got a database connection has closed
\* it when it ends, whichever way it ends, so that no connection is left open
\* after a request.
ConnectionReleased == resp.opened => resp.closed
====
